---- MODULE Spec2Model ----
(***************************************************************************)
(* VolleyVision (sketch.js): the four-click net calibration, the trail     *)
(* recorder (completed reps + the active rep), the per-rep metrics and the *)
(* stats aggregation, as a state machine over the sketch's globals.        *)
(*                                                                         *)
(* Numbers.  JavaScript numbers are modelled as exact extended rationals:  *)
(* a record [k, n, d] with k = "fin" (the reduced fraction n/d, d > 0),    *)
(* k = "inf" (n = 1 for +Infinity, -1 for -Infinity) or k = "nan".         *)
(* The rounding error of IEEE doubles is not modelled.                     *)
(* null is the empty tuple << >> and a set value v is the 1-tuple <<v>>.   *)
(* Rendering-only state (ready, showTrails, statsVisible, the canvas and   *)
(* the button widgets) is outside the model.                               *)
(***************************************************************************)
EXTENDS Integers, Sequences, FiniteSets, TLC

\* ------------------------------ Bounds of the model ------------------------
\* Total number of recorded points kept in trails and current together.
MaxTotalPts == 2
\* paletteIdx is capped: from the constructed state no colour is allocated
\* once it has reached this value (see paletteInWindow).
MaxPaletteIdx == 3

\* ------------------------------ Inputs -------------------------------------
\* Playback positions of the video, in frames of 1/30 s; the last one is
\* vid.duration().
VideoFrames == {0, 1}
Duration == CHOOSE d \in VideoFrames : \A f \in VideoFrames : f <= d

\* Canvas positions the user clicks (mouseX, mouseY).
Clicks == {<<0, 0>>, <<1, 1>>}

\* Keys the user presses (key / keyCode); "x" stands for any unbound key.
Keys == {" ", "n", "z", ",", ".", "ENTER", "s", "r", "x"}

\* ------------------------------ null / set values --------------------------
Null == << >>
Some(v) == <<v>>
IsNull(o) == o = Null
Val(o) == o[1]

\* ------------------------------ JavaScript numbers -------------------------
RECURSIVE Gcd(_, _)
Gcd(a, b) == IF b = 0 THEN a ELSE Gcd(b, a % b)

AbsInt(i) == IF i < 0 THEN -i ELSE i
SgnInt(i) == IF i < 0 THEN -1 ELSE IF i > 0 THEN 1 ELSE 0

\* The fraction n/d (d # 0), reduced, with a positive denominator.
Fin(n, d) ==
  LET g == Gcd(AbsInt(n), AbsInt(d))
      s == IF d < 0 THEN -1 ELSE 1
  IN [k |-> "fin", n |-> (s * n) \div g, d |-> AbsInt(d) \div g]
Num(i) == [k |-> "fin", n |-> i, d |-> 1]
Inf(s) == [k |-> "inf", n |-> s, d |-> 1]
NaN == [k |-> "nan", n |-> 0, d |-> 1]

IsNaN(a) == a.k = "nan"
isFinite(a) == a.k = "fin"
Sgn(a) == IF a.k = "nan" THEN 0 ELSE SgnInt(a.n)

Neg(a) == IF a.k = "nan" THEN NaN ELSE [a EXCEPT !.n = -a.n]
NumAbs(a) == IF a.k = "nan" THEN NaN ELSE [a EXCEPT !.n = AbsInt(a.n)]

Add(a, b) ==
  IF IsNaN(a) \/ IsNaN(b) THEN NaN
  ELSE IF a.k = "inf" /\ b.k = "inf" THEN (IF a.n = b.n THEN a ELSE NaN)
  ELSE IF a.k = "inf" THEN a
  ELSE IF b.k = "inf" THEN b
  ELSE Fin(a.n * b.d + b.n * a.d, a.d * b.d)
Sub(a, b) == Add(a, Neg(b))

Mul(a, b) ==
  IF IsNaN(a) \/ IsNaN(b) THEN NaN
  ELSE IF a.k = "inf" \/ b.k = "inf"
       THEN (IF Sgn(a) * Sgn(b) = 0 THEN NaN ELSE Inf(Sgn(a) * Sgn(b)))
  ELSE Fin(a.n * b.n, a.d * b.d)

\* IEEE division; a zero divisor is +0 (every divisor of the sketch is a
\* difference or an absolute value, which are never -0).
Div(a, b) ==
  IF IsNaN(a) \/ IsNaN(b) THEN NaN
  ELSE IF a.k = "inf" /\ b.k = "inf" THEN NaN
  ELSE IF a.k = "inf" THEN Inf(IF Sgn(b) < 0 THEN -a.n ELSE a.n)
  ELSE IF b.k = "inf" THEN Num(0)
  ELSE IF b.n = 0 THEN (IF a.n = 0 THEN NaN ELSE Inf(Sgn(a)))
  ELSE Fin(a.n * b.d, a.d * b.n)

\* a > b in JavaScript (false when either is NaN).
Gt(a, b) ==
  IF IsNaN(a) \/ IsNaN(b) THEN FALSE
  ELSE IF a.k = "inf" THEN a.n = 1 /\ ~(b.k = "inf" /\ b.n = 1)
  ELSE IF b.k = "inf" THEN b.n = -1
  ELSE a.n * b.d > b.n * a.d

\* !a is false: a is neither 0 nor NaN.
Truthy(a) == ~IsNaN(a) /\ ~(a.k = "fin" /\ a.n = 0)

\* Math.round of a finite number: floor(a + 1/2).
Round(a) == Num((2 * a.n + a.d) \div (2 * a.d))

\* ------------------------------ Global constants ---------------------------
NET_HEIGHT_M == Fin(243, 100)

PALETTE == << <<255, 80, 80>>, <<255, 160, 0>>, <<255, 220, 0>>, <<0, 190, 255>>,
              <<80, 220, 160>>, <<180, 120, 255>>, <<255, 100, 200>> >>

\* ------------------------------ State --------------------------------------
VARIABLES
  warmed,          \* the video has been primed
  priming,         \* a primeVideo timeout is pending
  started,         \* playback began after calibration
  showAllAtEnd,    \* end screen mode
  calibStep,       \* 0..4 (4 = done)
  calibPts,        \* [LB, LT, RB, RT], each null or a point [x, y]
  pixelsPerMeter,  \* null or a number
  topLine,         \* null or [m, b]
  trails,          \* completed reps
  current,         \* the rep being drawn
  paletteIdx,      \* index into the palette
  paused,          \* vid.elt.paused
  vidTime,         \* vid.time(), in frames
  stats            \* content of statsDiv: null ('') or the rendered summary

vars == <<warmed, priming, started, showAllAtEnd, calibStep, calibPts,
          pixelsPerMeter, topLine, trails, current, paletteIdx, paused,
          vidTime, stats>>

calibVars == <<calibStep, calibPts, pixelsPerMeter, topLine>>
repVars == <<trails, current, paletteIdx>>
vidVars == <<paused, vidTime>>

Corners == <<"LB", "LT", "RB", "RT">>

\* A rep as the sketch creates it: { points: [], color: c }, no metrics yet.
NewRep(c) == [points |-> << >>, color |-> c, metrics |-> Null]

\* Variant of nextColour with a plausible fault: the cursor is incremented
\* before it is used (++paletteIdx), so every colour is one place ahead.
nextColour_preIncrement == PALETTE[((paletteIdx + 1) % Len(PALETTE)) + 1]

\* Colour handed out by nextColour() and the cursor after the call.
nextColour == PALETTE[(paletteIdx % Len(PALETTE)) + 1]
nextPaletteIdx == paletteIdx + 1

\* The cursor values at which the model still allocates a colour: below
\* MaxPaletteIdx, and as many allocations from WrapStart on, where the cursor
\* passes the end of the palette.
WrapStart == Len(PALETTE) - 1
paletteInWindow ==
  \/ paletteIdx < MaxPaletteIdx
  \/ paletteIdx >= WrapStart /\ paletteIdx < WrapStart + MaxPaletteIdx - 1

RECURSIVE SumLen(_)
SumLen(reps) ==
  IF reps = << >> THEN 0 ELSE Len(Head(reps).points) + SumLen(Tail(reps))
TotalPts == SumLen(trails) + Len(current.points)

\* vid.play(): a video that has ended restarts from the beginning.
PlayTime == IF vidTime = Duration THEN 0 ELSE vidTime

Init ==
  /\ warmed = FALSE
  /\ priming = FALSE
  /\ started = FALSE
  /\ showAllAtEnd = FALSE
  /\ calibStep = 0
  /\ calibPts = [c \in {"LB", "LT", "RB", "RT"} |-> Null]
  /\ pixelsPerMeter = Null
  /\ topLine = Null
  /\ trails = << >>
  /\ current = NewRep(PALETTE[1])
  /\ paletteIdx = 1
  /\ paused = TRUE
  /\ vidTime = 0
  /\ stats = Null

\* ------------------------------ Calibration math ---------------------------
\* Build px->m scale and top-of-net line from the four clicks.
finalizeCalibration(pts) ==
  LET LB == Val(pts.LB)
      LT == Val(pts.LT)
      RB == Val(pts.RB)
      RT == Val(pts.RT)
      hLeft == NumAbs(Sub(Num(LT.y), Num(LB.y)))
      hRight == NumAbs(Sub(Num(RT.y), Num(RB.y)))
      hAvgPx == Div(Add(hLeft, hRight), Num(2))
      m == Div(Sub(Num(RT.y), Num(LT.y)), Sub(Num(RT.x), Num(LT.x)))
      b == Sub(Num(LT.y), Mul(m, Num(LT.x)))
  IN [pixelsPerMeter |-> Some(Div(hAvgPx, NET_HEIGHT_M)),
      topLine |-> Some([m |-> m, b |-> b])]

\* Metres the point is above (+) or below (-) the net tape at the same x.
metersAboveNetAtPoint(ppm, line, x, y) ==
  IF IsNull(ppm) \/ ~Truthy(Val(ppm)) \/ IsNull(line) THEN Null
  ELSE LET yTop == Add(Mul(Val(line).m, Num(x)), Val(line).b)
           dyPx == Sub(yTop, Num(y))
       IN Some(Div(dyPx, Val(ppm)))

\* Variant of metersHorizDistance with a plausible fault: the guard on
\* pixelsPerMeter is missing, and a null divisor counts as 0 in the division.
metersHorizDistance_noGuard(ppm, p1, p2) ==
  Some(Div(NumAbs(Sub(Num(p2.x), Num(p1.x))),
           IF IsNull(ppm) THEN Num(0) ELSE Val(ppm)))

\* Approx horizontal distance (metres) from p1 to p2 in screen space.
metersHorizDistance(ppm, p1, p2) ==
  IF IsNull(ppm) \/ ~Truthy(Val(ppm)) THEN Null
  ELSE Some(Div(NumAbs(Sub(Num(p2.x), Num(p1.x))), Val(ppm)))

\* ------------------------------ Metrics per rep ----------------------------
\* The loop over rep.points that tracks the maximum "above net" value.
RECURSIVE PeakAbove(_, _, _, _)
PeakAbove(ppm, line, points, peakAboveM) ==
  IF points = << >> THEN peakAboveM
  ELSE LET p == Head(points)
           a == metersAboveNetAtPoint(ppm, line, p.x, p.y)
       IN PeakAbove(ppm, line, Tail(points),
                    IF ~IsNull(a) /\ Gt(Val(a), peakAboveM)
                    THEN Val(a) ELSE peakAboveM)

\* Variant of RepMetrics with a plausible fault: only a rep without any point
\* is skipped (points.length < 1), a rep of one point gets metrics.
RepMetrics_singlePoint(ppm, line, rep) ==
  IF Len(rep.points) < 1
  THEN [peakM |-> Null, aboveNetCM |-> Null, widthM |-> Null, direction |-> Null]
  ELSE LET peakAboveM == PeakAbove(ppm, line, rep.points, Inf(-1))
           start == rep.points[1]
           end == rep.points[Len(rep.points)]
       IN [peakM |-> IF ~isFinite(peakAboveM) THEN Null
                     ELSE Some(Add(NET_HEIGHT_M, peakAboveM)),
           aboveNetCM |-> IF ~isFinite(peakAboveM) THEN Null
                          ELSE Some(Round(Mul(peakAboveM, Num(100)))),
           widthM |-> metersHorizDistance(ppm, start, end),
           direction |-> Some(IF end.x > start.x THEN "right"
                              ELSE IF end.x < start.x THEN "left" ELSE "none")]

\* Variant of RepMetrics with a plausible fault: the comparison of end.x and
\* start.x is the wrong way round, so the arrows are exchanged.
RepMetrics_dirSwapped(ppm, line, rep) ==
  IF Len(rep.points) < 2
  THEN [peakM |-> Null, aboveNetCM |-> Null, widthM |-> Null, direction |-> Null]
  ELSE LET peakAboveM == PeakAbove(ppm, line, rep.points, Inf(-1))
           start == rep.points[1]
           end == rep.points[Len(rep.points)]
       IN [peakM |-> IF ~isFinite(peakAboveM) THEN Null
                     ELSE Some(Add(NET_HEIGHT_M, peakAboveM)),
           aboveNetCM |-> IF ~isFinite(peakAboveM) THEN Null
                          ELSE Some(Round(Mul(peakAboveM, Num(100)))),
           widthM |-> metersHorizDistance(ppm, start, end),
           direction |-> Some(IF end.x < start.x THEN "right"
                              ELSE IF end.x > start.x THEN "left" ELSE "none")]

\* Variant of RepMetrics with a plausible fault: the scan for the peak starts
\* from the peak the rep already carries (rep.peakM ?? -Infinity) and not from
\* -Infinity, so a second computation builds on the result of the first.
RepMetrics_keepPeak(ppm, line, rep) ==
  IF Len(rep.points) < 2
  THEN [peakM |-> Null, aboveNetCM |-> Null, widthM |-> Null, direction |-> Null]
  ELSE LET peakAboveM == PeakAbove(ppm, line, rep.points,
                                   IF IsNull(rep.metrics) THEN Inf(-1)
                                   ELSE IF IsNull(Val(rep.metrics).peakM)
                                   THEN Inf(-1)
                                   ELSE Val(Val(rep.metrics).peakM))
           start == rep.points[1]
           end == rep.points[Len(rep.points)]
       IN [peakM |-> IF ~isFinite(peakAboveM) THEN Null
                     ELSE Some(Add(NET_HEIGHT_M, peakAboveM)),
           aboveNetCM |-> IF ~isFinite(peakAboveM) THEN Null
                          ELSE Some(Round(Mul(peakAboveM, Num(100)))),
           widthM |-> metersHorizDistance(ppm, start, end),
           direction |-> Some(IF end.x > start.x THEN "right"
                              ELSE IF end.x < start.x THEN "left" ELSE "none")]

\* Body of the loop of computeAllRepMetrics for one rep.
RepMetrics(ppm, line, rep) ==
  IF Len(rep.points) < 2
  THEN [peakM |-> Null, aboveNetCM |-> Null, widthM |-> Null, direction |-> Null]
  ELSE LET peakAboveM == PeakAbove(ppm, line, rep.points, Inf(-1))
           start == rep.points[1]
           end == rep.points[Len(rep.points)]
       IN [peakM |-> IF ~isFinite(peakAboveM) THEN Null
                     ELSE Some(Add(NET_HEIGHT_M, peakAboveM)),
           aboveNetCM |-> IF ~isFinite(peakAboveM) THEN Null
                          ELSE Some(Round(Mul(peakAboveM, Num(100)))),
           widthM |-> metersHorizDistance(ppm, start, end),
           direction |-> Some(IF end.x > start.x THEN "right"
                              ELSE IF end.x < start.x THEN "left" ELSE "none")]

\* Fill in peak height, above-net cm, width, and direction for each rep.
computeAllRepMetrics(ppm, line, reps) ==
  [i \in 1..Len(reps) |->
     [reps[i] EXCEPT !.metrics = Some(RepMetrics(ppm, line, reps[i]))]]

\* ------------------------------ Stats table --------------------------------
\* A metrics field of a rep as renderStatsTable reads it (undefined ~ null).
Field(rep, f) == IF IsNull(rep.metrics) THEN Null ELSE Val(rep.metrics)[f]

\* Variant of StatsLoop with a plausible fault: the best peak is replaced on
\* r.peakM >= bestVal, so of several reps with the best peak the last one wins.
RECURSIVE StatsLoop_lastOnTie(_, _, _)
StatsLoop_lastOnTie(reps, i, acc) ==
  IF i > Len(reps) THEN acc
  ELSE LET r == reps[i]
           peak == Field(r, "peakM")
           width == Field(r, "widthM")
           better == ~IsNull(peak) /\ ~Gt(acc.bestVal, Val(peak))
           acc1 == [acc EXCEPT
                      !.bestVal = IF better THEN Val(peak) ELSE @,
                      !.bestIdx = IF better THEN i - 1 ELSE @,
                      !.sumPeak = IF IsNull(peak) THEN @ ELSE Add(@, Val(peak)),
                      !.nPeak = IF IsNull(peak) THEN @ ELSE @ + 1,
                      !.sumWidth = IF IsNull(width) THEN @ ELSE Add(@, Val(width)),
                      !.nWidth = IF IsNull(width) THEN @ ELSE @ + 1,
                      !.rows = Append(@, [rep |-> i, peakM |-> peak,
                                          aboveCM |-> Field(r, "aboveNetCM"),
                                          widthM |-> width,
                                          direction |-> Field(r, "direction"),
                                          color |-> r.color])]
       IN StatsLoop_lastOnTie(reps, i + 1, acc1)

\* Variant of StatsLoop with a plausible fault: the counters nPeak and nWidth
\* are incremented outside the null checks, so every rep is counted.
RECURSIVE StatsLoop_countAll(_, _, _)
StatsLoop_countAll(reps, i, acc) ==
  IF i > Len(reps) THEN acc
  ELSE LET r == reps[i]
           peak == Field(r, "peakM")
           width == Field(r, "widthM")
           better == ~IsNull(peak) /\ Gt(Val(peak), acc.bestVal)
           acc1 == [acc EXCEPT
                      !.bestVal = IF better THEN Val(peak) ELSE @,
                      !.bestIdx = IF better THEN i - 1 ELSE @,
                      !.sumPeak = IF IsNull(peak) THEN @ ELSE Add(@, Val(peak)),
                      !.nPeak = @ + 1,
                      !.sumWidth = IF IsNull(width) THEN @ ELSE Add(@, Val(width)),
                      !.nWidth = @ + 1,
                      !.rows = Append(@, [rep |-> i, peakM |-> peak,
                                          aboveCM |-> Field(r, "aboveNetCM"),
                                          widthM |-> width,
                                          direction |-> Field(r, "direction"),
                                          color |-> r.color])]
       IN StatsLoop_countAll(reps, i + 1, acc1)

\* The accumulator loop of renderStatsTable over trails[i..].
RECURSIVE StatsLoop(_, _, _)
StatsLoop(reps, i, acc) ==
  IF i > Len(reps) THEN acc
  ELSE LET r == reps[i]
           peak == Field(r, "peakM")
           width == Field(r, "widthM")
           better == ~IsNull(peak) /\ Gt(Val(peak), acc.bestVal)
           acc1 == [acc EXCEPT
                      !.bestVal = IF better THEN Val(peak) ELSE @,
                      !.bestIdx = IF better THEN i - 1 ELSE @,
                      !.sumPeak = IF IsNull(peak) THEN @ ELSE Add(@, Val(peak)),
                      !.nPeak = IF IsNull(peak) THEN @ ELSE @ + 1,
                      !.sumWidth = IF IsNull(width) THEN @ ELSE Add(@, Val(width)),
                      !.nWidth = IF IsNull(width) THEN @ ELSE @ + 1,
                      !.rows = Append(@, [rep |-> i, peakM |-> peak,
                                          aboveCM |-> Field(r, "aboveNetCM"),
                                          widthM |-> width,
                                          direction |-> Field(r, "direction"),
                                          color |-> r.color])]
       IN StatsLoop(reps, i + 1, acc1)

\* What renderStatsTable puts into statsDiv: the rows and the summary lines.
renderStatsTable(reps) ==
  LET acc == StatsLoop(reps, 1,
                       [rows |-> << >>, bestIdx |-> -1, bestVal |-> Inf(-1),
                        sumPeak |-> Num(0), nPeak |-> 0,
                        sumWidth |-> Num(0), nWidth |-> 0])
  IN [rows |-> acc.rows,
      bestIdx |-> acc.bestIdx,
      bestVal |-> acc.bestVal,
      avgPeak |-> IF acc.nPeak # 0 THEN Some(Div(acc.sumPeak, Num(acc.nPeak)))
                  ELSE Null,
      avgWidth |-> IF acc.nWidth # 0 THEN Some(Div(acc.sumWidth, Num(acc.nWidth)))
                   ELSE Null]

\* ------------------------------ Video priming ------------------------------
\* primeVideo(): start playback and arm the timeout that pauses it again.
primeVideo ==
  /\ ~warmed
  /\ paused' = FALSE
  /\ vidTime' = PlayTime
  /\ priming' = TRUE
  /\ UNCHANGED <<warmed, started, showAllAtEnd, stats>>
  /\ UNCHANGED calibVars
  /\ UNCHANGED repVars

\* The draw loop; in calibration mode it primes the video until it is warmed.
draw ==
  /\ calibStep < 4
  /\ primeVideo

\* The setTimeout callback of primeVideo.  The timeouts armed by successive
\* draw frames all do the same; they are modelled as one.
primeTimeout ==
  /\ priming
  /\ paused' = TRUE
  /\ warmed' = TRUE
  /\ priming' = FALSE
  /\ UNCHANGED <<started, showAllAtEnd, stats, vidTime>>
  /\ UNCHANGED calibVars
  /\ UNCHANGED repVars

\* ------------------------------ Mouse interaction --------------------------
\* Variant of calibClick with a plausible fault: the clicks are stored in
\* the order LB, RB, LT, RT.
calibClick_swapped(x, y) ==
  LET pt == Some([x |-> x, y |-> y])
      pts == [calibPts EXCEPT ![<<"LB", "RB", "LT", "RT">>[calibStep + 1]] = pt]
  IN /\ calibStep < 4
     /\ calibPts' = pts
     /\ calibStep' = calibStep + 1
     /\ IF calibStep + 1 = 4
        THEN /\ pixelsPerMeter' = finalizeCalibration(pts).pixelsPerMeter
             /\ topLine' = finalizeCalibration(pts).topLine
        ELSE UNCHANGED <<pixelsPerMeter, topLine>>
     /\ UNCHANGED <<warmed, priming, started, showAllAtEnd, stats>>
     /\ UNCHANGED repVars
     /\ UNCHANGED vidVars

\* The calibration branch of mousePressed: one of the four clicks, in order.
calibClick(x, y) ==
  LET pt == Some([x |-> x, y |-> y])
      pts == [calibPts EXCEPT ![Corners[calibStep + 1]] = pt]
  IN /\ calibStep < 4
     /\ calibPts' = pts
     /\ calibStep' = calibStep + 1
     /\ IF calibStep + 1 = 4
        THEN /\ pixelsPerMeter' = finalizeCalibration(pts).pixelsPerMeter
             /\ topLine' = finalizeCalibration(pts).topLine
        ELSE UNCHANGED <<pixelsPerMeter, topLine>>
     /\ UNCHANGED <<warmed, priming, started, showAllAtEnd, stats>>
     /\ UNCHANGED repVars
     /\ UNCHANGED vidVars

\* First click after calibration starts playback.
startClick ==
  /\ ~started
  /\ started' = TRUE
  /\ paused' = FALSE
  /\ vidTime' = PlayTime
  /\ UNCHANGED <<warmed, priming, showAllAtEnd, stats>>
  /\ UNCHANGED calibVars
  /\ UNCHANGED repVars

\* Variant of addPoint with a plausible fault: unshift instead of push.
addPoint_front(x, y) ==
  /\ TotalPts < MaxTotalPts
  /\ current' = [current EXCEPT
                   !.points = <<[x |-> x, y |-> y, t |-> vidTime]>> \o @]
  /\ UNCHANGED <<warmed, priming, started, showAllAtEnd, stats, trails, paletteIdx>>
  /\ UNCHANGED calibVars
  /\ UNCHANGED vidVars

\* Add a new point to the current rep (with video timestamp).
addPoint(x, y) ==
  /\ TotalPts < MaxTotalPts
  /\ current' = [current EXCEPT
                   !.points = Append(@, [x |-> x, y |-> y, t |-> vidTime])]
  /\ UNCHANGED <<warmed, priming, started, showAllAtEnd, stats, trails, paletteIdx>>
  /\ UNCHANGED calibVars
  /\ UNCHANGED vidVars

\* Variant of mousePressed with a plausible fault: "calibStep <= 4", so a click after calibration
\* overwrites the RT corner and derives the geometry again.
mousePressed_recalibrate(x, y) ==
  IF ~warmed THEN primeVideo
  ELSE IF calibStep < 4 THEN calibClick(x, y)
  ELSE LET pts == [calibPts EXCEPT !.RT = Some([x |-> x, y |-> y])]
       IN /\ calibPts' = pts
          /\ pixelsPerMeter' = finalizeCalibration(pts).pixelsPerMeter
          /\ topLine' = finalizeCalibration(pts).topLine
          /\ UNCHANGED <<warmed, priming, started, showAllAtEnd, stats, calibStep>>
          /\ UNCHANGED repVars
          /\ UNCHANGED vidVars

mousePressed(x, y) ==
  IF ~warmed THEN primeVideo
  ELSE IF calibStep < 4 THEN calibClick(x, y)
  ELSE IF ~started THEN startClick
  ELSE IF showAllAtEnd THEN UNCHANGED vars
  ELSE addPoint(x, y)

\* ------------------------------ Replay / restart ---------------------------
\* Variant of replay with a plausible fault: the fresh pass also starts with
\* an empty list of reps (trails = []).
replay_clearTrails ==
  /\ paletteInWindow
  /\ showAllAtEnd' = FALSE
  /\ trails' = << >>
  /\ current' = NewRep(nextColour)
  /\ paletteIdx' = nextPaletteIdx
  /\ vidTime' = 0
  /\ paused' = FALSE
  /\ UNCHANGED <<warmed, priming, started, stats>>
  /\ UNCHANGED calibVars

\* Enter and the Replay button: replay from 0 and hide trails.
replay ==
  /\ paletteInWindow
  /\ showAllAtEnd' = FALSE
  /\ current' = NewRep(nextColour)
  /\ paletteIdx' = nextPaletteIdx
  /\ vidTime' = 0
  /\ paused' = FALSE
  /\ UNCHANGED <<warmed, priming, started, stats, trails>>
  /\ UNCHANGED calibVars

\* Restart helper used by the button and the "S" key.
restartVideoHidden ==
  /\ paletteInWindow
  /\ showAllAtEnd' = FALSE
  /\ current' = NewRep(nextColour)
  /\ paletteIdx' = nextPaletteIdx
  /\ vidTime' = 0
  /\ paused' = FALSE
  /\ started' = TRUE
  /\ UNCHANGED <<warmed, priming, stats, trails>>
  /\ UNCHANGED calibVars

\* ------------------------------ Keyboard interaction -----------------------
\* Space: toggle play/pause.
keySpace ==
  /\ paused' = ~paused
  /\ vidTime' = IF paused THEN PlayTime ELSE vidTime
  /\ UNCHANGED <<warmed, priming, started, showAllAtEnd, stats>>
  /\ UNCHANGED calibVars
  /\ UNCHANGED repVars

\* Variant of endRep with a plausible fault: unshift instead of push.
endRep_front ==
  /\ paletteInWindow
  /\ trails' = IF Len(current.points) # 0 THEN <<current>> \o trails ELSE trails
  /\ current' = NewRep(nextColour)
  /\ paletteIdx' = nextPaletteIdx
  /\ UNCHANGED <<warmed, priming, started, showAllAtEnd, stats>>
  /\ UNCHANGED calibVars
  /\ UNCHANGED vidVars

\* Variant of endRep with a plausible fault: the emptiness test is dropped, an empty rep is pushed.
endRep_pushEmpty ==
  /\ paletteInWindow
  /\ trails' = Append(trails, current)
  /\ current' = NewRep(nextColour)
  /\ paletteIdx' = nextPaletteIdx
  /\ UNCHANGED <<warmed, priming, started, showAllAtEnd, stats>>
  /\ UNCHANGED calibVars
  /\ UNCHANGED vidVars

\* N: finish current rep and start a new colour.
endRep ==
  /\ paletteInWindow
  /\ trails' = IF Len(current.points) # 0 THEN Append(trails, current) ELSE trails
  /\ current' = NewRep(nextColour)
  /\ paletteIdx' = nextPaletteIdx
  /\ UNCHANGED <<warmed, priming, started, showAllAtEnd, stats>>
  /\ UNCHANGED calibVars
  /\ UNCHANGED vidVars

\* Variant of undoLast with a plausible fault: shift instead of pop.
undoLast_first ==
  /\ current' = IF Len(current.points) # 0
                THEN [current EXCEPT !.points = Tail(@)]
                ELSE current
  /\ UNCHANGED <<warmed, priming, started, showAllAtEnd, stats, trails, paletteIdx>>
  /\ UNCHANGED calibVars
  /\ UNCHANGED vidVars

\* Z: undo last clicked point.
undoLast ==
  /\ current' = IF Len(current.points) # 0
                THEN [current EXCEPT !.points = SubSeq(@, 1, Len(@) - 1)]
                ELSE current
  /\ UNCHANGED <<warmed, priming, started, showAllAtEnd, stats, trails, paletteIdx>>
  /\ UNCHANGED calibVars
  /\ UNCHANGED vidVars

\* , : step backward one frame.
stepBack ==
  /\ IF ~showAllAtEnd
     THEN /\ paused' = TRUE
          /\ vidTime' = IF vidTime - 1 < 0 THEN 0 ELSE vidTime - 1
     ELSE UNCHANGED vidVars
  /\ UNCHANGED <<warmed, priming, started, showAllAtEnd, stats>>
  /\ UNCHANGED calibVars
  /\ UNCHANGED repVars

\* . : step forward one frame.
stepForward ==
  /\ IF ~showAllAtEnd
     THEN /\ paused' = TRUE
          /\ vidTime' = IF vidTime + 1 > Duration THEN Duration ELSE vidTime + 1
     ELSE UNCHANGED vidVars
  /\ UNCHANGED <<warmed, priming, started, showAllAtEnd, stats>>
  /\ UNCHANGED calibVars
  /\ UNCHANGED repVars

\* Variant of reset with a plausible fault: the geometry's topLine is not cleared.
reset_keepTopLine ==
  /\ paletteInWindow
  /\ trails' = << >>
  /\ current' = NewRep(nextColour)
  /\ paletteIdx' = nextPaletteIdx
  /\ showAllAtEnd' = FALSE
  /\ started' = FALSE
  /\ calibStep' = 0
  /\ calibPts' = [c \in {"LB", "LT", "RB", "RT"} |-> Null]
  /\ pixelsPerMeter' = Null
  /\ warmed' = FALSE
  /\ stats' = Null
  /\ vidTime' = 0
  /\ paused' = TRUE
  /\ UNCHANGED <<priming, topLine>>

\* Variant of reset with a plausible fault: the completed reps are not wiped.
reset_keepTrails ==
  /\ paletteInWindow
  /\ current' = NewRep(nextColour)
  /\ paletteIdx' = nextPaletteIdx
  /\ showAllAtEnd' = FALSE
  /\ started' = FALSE
  /\ calibStep' = 0
  /\ calibPts' = [c \in {"LB", "LT", "RB", "RT"} |-> Null]
  /\ pixelsPerMeter' = Null
  /\ topLine' = Null
  /\ warmed' = FALSE
  /\ stats' = Null
  /\ vidTime' = 0
  /\ paused' = TRUE
  /\ UNCHANGED <<priming, trails>>

\* R: full reset (wipe reps + calibration).
reset ==
  /\ paletteInWindow
  /\ trails' = << >>
  /\ current' = NewRep(nextColour)
  /\ paletteIdx' = nextPaletteIdx
  /\ showAllAtEnd' = FALSE
  /\ started' = FALSE
  /\ calibStep' = 0
  /\ calibPts' = [c \in {"LB", "LT", "RB", "RT"} |-> Null]
  /\ pixelsPerMeter' = Null
  /\ topLine' = Null
  /\ warmed' = FALSE
  /\ stats' = Null
  /\ vidTime' = 0
  /\ paused' = TRUE
  /\ UNCHANGED priming

\* Variant of keyPressed with a plausible fault: the early return during
\* calibration is missing.
keyPressed_duringCalibration(k) ==
  CASE k = " " -> keySpace
    [] k \in {"N", "n"} -> endRep
    [] k \in {"Z", "z"} -> undoLast
    [] k = "," -> stepBack
    [] k = "." -> stepForward
    [] k = "ENTER" -> replay
    [] k \in {"S", "s"} -> restartVideoHidden
    [] k \in {"R", "r"} -> reset
    [] OTHER -> UNCHANGED vars

keyPressed(k) ==
  IF calibStep < 4 THEN UNCHANGED vars
  ELSE CASE k = " " -> keySpace
         [] k \in {"N", "n"} -> endRep
         [] k \in {"Z", "z"} -> undoLast
         [] k = "," -> stepBack
         [] k = "." -> stepForward
         [] k = "ENTER" -> replay
         [] k \in {"S", "s"} -> restartVideoHidden
         [] k \in {"R", "r"} -> reset
         [] OTHER -> UNCHANGED vars

\* ------------------------------ End-screen buttons -------------------------
\* The dashboard buttons are shown only on the end screen (updateDashboard).
dashboardShown == showAllAtEnd /\ calibStep >= 4

btnReplay == dashboardShown /\ replay
btnRestart == dashboardShown /\ restartVideoHidden

\* ------------------------------ Video playback -----------------------------
\* Playback advances by one frame.
videoTick ==
  /\ ~paused
  /\ vidTime < Duration
  /\ vidTime' = vidTime + 1
  /\ UNCHANGED <<warmed, priming, started, showAllAtEnd, stats, paused>>
  /\ UNCHANGED calibVars
  /\ UNCHANGED repVars

\* Variant of onended with a plausible fault: the end of the video closes the
\* active rep when it has points, so that it is measured with the others.
onended_finalize ==
  /\ ~paused
  /\ vidTime = Duration
  /\ paused' = TRUE
  /\ showAllAtEnd' = TRUE
  /\ trails' = computeAllRepMetrics(pixelsPerMeter, topLine,
                  IF Len(current.points) # 0 THEN Append(trails, current)
                  ELSE trails)
  /\ current' = [current EXCEPT !.points = << >>]
  /\ stats' = Some(renderStatsTable(trails'))
  /\ UNCHANGED <<warmed, priming, started, paletteIdx, vidTime>>
  /\ UNCHANGED calibVars

\* vid.elt.onended: playback reached the end (the browser pauses the video
\* there); reveal trails, compute and render the metrics.
onended ==
  /\ ~paused
  /\ vidTime = Duration
  /\ paused' = TRUE
  /\ showAllAtEnd' = TRUE
  /\ trails' = computeAllRepMetrics(pixelsPerMeter, topLine, trails)
  /\ stats' = Some(renderStatsTable(trails'))
  /\ UNCHANGED <<warmed, priming, started, current, paletteIdx, vidTime>>
  /\ UNCHANGED calibVars

Next ==
  \/ draw
  \/ primeTimeout
  \/ \E pt \in Clicks : mousePressed(pt[1], pt[2])
  \/ \E k \in Keys : keyPressed(k)
  \/ btnReplay
  \/ btnRestart
  \/ videoTick
  \/ onended

Spec == Init /\ [][Next]_vars

\* ------------------------------ The cursor at the end of the palette -------
\* A calibrated session in which N was pressed on the empty first rep until
\* the cursor stands at WrapStart: the next colour is the last of the palette.
InitWrap ==
  /\ warmed = TRUE
  /\ priming = FALSE
  /\ started = FALSE
  /\ showAllAtEnd = FALSE
  /\ calibStep = 4
  /\ \E lb \in Clicks, lt \in Clicks, rb \in Clicks, rt \in Clicks :
       LET pts == [LB |-> Some([x |-> lb[1], y |-> lb[2]]),
                   LT |-> Some([x |-> lt[1], y |-> lt[2]]),
                   RB |-> Some([x |-> rb[1], y |-> rb[2]]),
                   RT |-> Some([x |-> rt[1], y |-> rt[2]])]
       IN /\ calibPts = pts
          /\ pixelsPerMeter = finalizeCalibration(pts).pixelsPerMeter
          /\ topLine = finalizeCalibration(pts).topLine
  /\ trails = << >>
  /\ current = NewRep(PALETTE[((WrapStart - 1) % Len(PALETTE)) + 1])
  /\ paletteIdx = WrapStart
  /\ paused = TRUE
  /\ vidTime = 0
  /\ stats = Null

SpecCursor == InitWrap /\ [][Next]_vars

\* ------------------------------ Sessions at the end of the video -----------
\* Total number of points in the completed reps of such a session.
MaxMetricPts == 4

\* Positions clicked in such a session, for the corners and for the points.
MetricClicks == {<<0, 0>>, <<2, 1>>, <<2, 0>>}
MetricPoints == {[x |-> c[1], y |-> c[2], t |-> 0] : c \in MetricClicks}

\* The ways of cutting n points into reps of at least one point (the N key
\* pushes a rep only when it has points).
RECURSIVE Compositions(_)
Compositions(n) ==
  IF n = 0 THEN {<< >>}
  ELSE UNION {{<<k>> \o c : c \in Compositions(n - k)} : k \in 1..n}

RECURSIVE Cut(_, _)
Cut(pts, lens) ==
  IF lens = << >> THEN << >>
  ELSE <<SubSeq(pts, 1, lens[1])>>
         \o Cut(SubSeq(pts, lens[1] + 1, Len(pts)), Tail(lens))

\* A calibrated, started session whose video is about to end: the corners
\* were clicked, the points of each rep were clicked with the video paused at
\* its first frame and each rep was closed with N, then the video played on.
InitMetrics ==
  /\ warmed = TRUE
  /\ priming = FALSE
  /\ started = TRUE
  /\ showAllAtEnd = FALSE
  /\ calibStep = 4
  /\ \E lb \in MetricClicks, lt \in MetricClicks,
        rb \in MetricClicks, rt \in MetricClicks :
       LET pts == [LB |-> Some([x |-> lb[1], y |-> lb[2]]),
                   LT |-> Some([x |-> lt[1], y |-> lt[2]]),
                   RB |-> Some([x |-> rb[1], y |-> rb[2]]),
                   RT |-> Some([x |-> rt[1], y |-> rt[2]])]
       IN /\ calibPts = pts
          /\ pixelsPerMeter = finalizeCalibration(pts).pixelsPerMeter
          /\ topLine = finalizeCalibration(pts).topLine
  /\ \E n \in 0..MaxMetricPts :
       \E pts \in [1..n -> MetricPoints], lens \in Compositions(n) :
         /\ trails = [i \in 1..Len(lens) |->
                        [points |-> Cut(pts, lens)[i],
                         color |-> PALETTE[((i - 1) % Len(PALETTE)) + 1],
                         metrics |-> Null]]
         /\ current = NewRep(PALETTE[(Len(lens) % Len(PALETTE)) + 1])
         /\ paletteIdx = Len(lens) + 1
  /\ paused = FALSE
  /\ vidTime = Duration
  /\ stats = Null

\* The end of the video is the step that computes the metrics and the table.
NextMetrics == onended

SpecMetrics == InitMetrics /\ [][NextMetrics]_vars

\* ------------------------------ Properties ---------------------------------
AllCorners == {"LB", "LT", "RB", "RT"}
Complete == calibStep = 4

\* C1: the calibration step is in 0..4 and exactly the first calibStep corners
\* (in the order LB, LT, RB, RT) are set; a calibration click stores its point
\* in the corner of the current step and advances the step by exactly one; the
\* step changes in no other way except back to 0, so Complete is reached only
\* after four calibration clicks since the start or the last reset.
C1_CalibrationOrder ==
  /\ [](/\ calibStep \in 0..4
        /\ \A i \in 1..4 : (i <= calibStep) <=> ~IsNull(calibPts[Corners[i]]))
  /\ [][\A pt \in Clicks :
          (warmed /\ calibStep < 4 /\ mousePressed(pt[1], pt[2]))
          => /\ calibStep' = calibStep + 1
             /\ calibPts' = [calibPts EXCEPT ![Corners[calibStep + 1]] =
                               Some([x |-> pt[1], y |-> pt[2]])]]_vars
  /\ [][calibStep' # calibStep
          => \/ calibStep' = 0
             \/ /\ calibStep' = calibStep + 1
                /\ \E pt \in Clicks : mousePressed(pt[1], pt[2])]_vars

\* C1 witness: all four corners were clicked, at two different positions.
C1_Witness ==
  /\ Complete
  /\ \A c \in AllCorners : ~IsNull(calibPts[c])
  /\ calibPts.LB # calibPts.LT

\* C2: the geometry is never partially valid: pixelsPerMeter and topLine are
\* both null or both set, and they are set exactly when calibration is
\* Complete, which is exactly when all four corners are set.
C2_GeometryAtomic ==
  /\ IsNull(pixelsPerMeter) <=> IsNull(topLine)
  /\ ~IsNull(pixelsPerMeter) <=> Complete
  /\ Complete <=> \A c \in AllCorners : ~IsNull(calibPts[c])

\* C2 witness: calibration was completed, reset, and a new calibration has
\* begun: one corner is set and there is no geometry.
C2_Witness ==
  /\ calibStep = 1
  /\ paletteIdx > 1
  /\ IsNull(pixelsPerMeter)
  /\ IsNull(topLine)

\* C3: a set corner and a derived geometry are changed by no step but a full
\* reset; a click while calibration is Complete changes neither the step, the
\* corners nor the geometry.
C3_CalibrationImmutable ==
  /\ [][~(Complete /\ reset)
          => /\ \A c \in AllCorners :
                  ~IsNull(calibPts[c]) => calibPts'[c] = calibPts[c]
             /\ ~IsNull(pixelsPerMeter) => pixelsPerMeter' = pixelsPerMeter
             /\ ~IsNull(topLine) => topLine' = topLine]_vars
  /\ [][\A pt \in Clicks :
          (Complete /\ mousePressed(pt[1], pt[2])) => UNCHANGED calibVars]_vars

\* C3 witness: two clicks were received while Complete and recorded as points.
C3_Witness ==
  /\ Complete
  /\ ~IsNull(topLine)
  /\ Len(current.points) = 2

\* C4 (the claim as stated): no Complete state has the LT and RT corners at
\* the same x, nor a geometry whose slope or intercept is not finite.
C4_DegenerateRejected ==
  Complete
  => /\ Val(calibPts.LT).x # Val(calibPts.RT).x
     /\ isFinite(Val(topLine).m)
     /\ isFinite(Val(topLine).b)

\* C5 (the claim as stated): whenever calibration is Complete, pixelsPerMeter
\* is strictly positive.
C5_ScalePositive ==
  Complete => Gt(Val(pixelsPerMeter), Num(0))

\* C6: with calibration Complete, playback started and the session not ended,
\* a click appends exactly the point (x, y, video time) at the end of the
\* active rep and leaves its earlier points and colour, the completed reps,
\* the colour cursor and the calibration unchanged.
C6_AddPointAppends ==
  [][\A pt \in Clicks :
       (Complete /\ started /\ ~showAllAtEnd /\ mousePressed(pt[1], pt[2]))
       => /\ current'.points =
               Append(current.points, [x |-> pt[1], y |-> pt[2], t |-> vidTime])
          /\ current'.color = current.color
          /\ UNCHANGED <<trails, paletteIdx>>
          /\ UNCHANGED calibVars]_vars

\* C6 witness: the active rep holds two different points recorded by clicks,
\* the second one after playback has advanced.
C6_Witness ==
  /\ Complete
  /\ Len(current.points) = 2
  /\ current.points[1] # current.points[2]
  /\ current.points[2].t = 1

\* C7: undoLast removes exactly the last point of a non-empty active rep, the
\* other points keeping their order, and changes nothing at all on an empty
\* one; the completed reps and the calibration are unchanged either way.
C7_UndoLast ==
  [][keyPressed("z")
       => /\ IF Len(current.points) >= 1
             THEN /\ current'.points =
                       SubSeq(current.points, 1, Len(current.points) - 1)
                  /\ current'.color = current.color
             ELSE UNCHANGED vars
          /\ UNCHANGED <<trails, paletteIdx>>
          /\ UNCHANGED calibVars]_vars

\* C7 witness: an active rep of two different points, on which undo acts.
C7_Witness ==
  /\ Complete
  /\ Len(current.points) = 2
  /\ current.points[1].x # current.points[2].x

\* C8: endRep on a non-empty active rep appends one rep with the active rep's
\* points and colour at the tail of the completed reps, leaves the earlier
\* ones unchanged, and makes the active rep an empty one with the next
\* palette colour.
C8_EndRepAppends ==
  [][(Len(current.points) >= 1 /\ keyPressed("n"))
       => /\ Len(trails') = Len(trails) + 1
          /\ SubSeq(trails', 1, Len(trails)) = trails
          /\ trails'[Len(trails')].points = current.points
          /\ trails'[Len(trails')].color = current.color
          /\ current'.points = << >>
          /\ current'.color = PALETTE[(paletteIdx % Len(PALETTE)) + 1]]_vars

\* C8 witness: two reps were ended, with different points and colours.
C8_Witness ==
  /\ Len(trails) = 2
  /\ trails[1].points # trails[2].points
  /\ trails[1].color # trails[2].color
  /\ current.points = << >>

\* C9 (the claim as stated): endRep on an empty active rep changes neither the
\* completed reps, the active rep and its colour, nor the colour cursor.
C9_EndRepEmptyNoOp ==
  [][(Complete /\ current.points = << >> /\ keyPressed("n"))
       => UNCHANGED <<trails, current, paletteIdx>>]_vars

\* C9 (amended): endRep on an empty active rep leaves the completed reps
\* unchanged and the active rep empty, but gives the active rep the next
\* palette colour and advances the colour cursor by one.
C9_EndRepEmptyRecolours ==
  [][(Complete /\ current.points = << >> /\ keyPressed("n"))
       => /\ trails' = trails
          /\ current'.points = << >>
          /\ current'.color = PALETTE[(paletteIdx % Len(PALETTE)) + 1]
          /\ paletteIdx' = paletteIdx + 1]_vars

\* C9 witness: before playback started, with nothing recorded, the active rep
\* has already moved on to the third palette colour.
C9_Witness ==
  /\ Complete
  /\ ~started
  /\ trails = << >>
  /\ current.points = << >>
  /\ current.color = PALETTE[3]

\* C10: a full reset in a Complete state leaves no completed reps, an empty
\* active rep, the calibration at step 0 with all corners unset, and no
\* geometry.
C10_ResetClearsAll ==
  [][(Complete /\ keyPressed("r"))
       => /\ trails' = << >>
          /\ current'.points = << >>
          /\ calibStep' = 0
          /\ \A c \in AllCorners : IsNull(calibPts'[c])
          /\ IsNull(pixelsPerMeter')
          /\ IsNull(topLine')]_vars

\* C10 witness: the state after a reset of a session in which a rep had been
\* ended: the colour cursor has advanced twice and calibration is at step 0.
C10_Witness ==
  /\ calibStep = 0
  /\ paletteIdx = 3
  /\ trails = << >>
  /\ current.points = << >>
  /\ IsNull(pixelsPerMeter)

\* C11: the colour cursor never decreases, not even on a full reset; every
\* allocation of a new active rep (endRep, reset, replay, restart) gives it
\* the colour PALETTE[cursor mod |PALETTE|] (0-based) and advances the cursor
\* by exactly one, the cursor changes in no other way, and so the colours
\* wrap cyclically through the palette.
C11_CursorCycles ==
  /\ [][paletteIdx' >= paletteIdx]_vars
  /\ [][(Complete /\ \E k \in {"n", "r", "ENTER", "s"} : keyPressed(k))
          \/ btnReplay \/ btnRestart
          => /\ current' = NewRep(PALETTE[(paletteIdx % 7) + 1])
             /\ paletteIdx' = paletteIdx + 1]_vars
  /\ [][paletteIdx' # paletteIdx
          => /\ paletteIdx' = paletteIdx + 1
             /\ current' = NewRep(PALETTE[(paletteIdx % 7) + 1])]_vars
  /\ [](current.color = PALETTE[((paletteIdx - 1) % 7) + 1])

\* C11 witness: the cursor has passed the end of the seven-colour palette and
\* the active rep has the first colour again.
C11_Witness ==
  /\ paletteIdx = 8
  /\ current.color = PALETTE[1]
  /\ trails # << >>

\* Points and reps on which the geometry queries are probed.
ProbePoints == {[x |-> c[1], y |-> c[2], t |-> 0] :
                  c \in Clicks \cup {<<1, 0>>}}
ProbeReps ==
  {[points |-> pts, color |-> PALETTE[1], metrics |-> Null] :
     pts \in UNION {[1..n -> ProbePoints] : n \in 0..3}}

\* C12: while calibration is not Complete the geometry queries return null:
\* metersAboveNetAtPoint and metersHorizDistance return null for every input,
\* and the metrics of any rep then have null peakM, aboveNetCM and widthM.
C12_NullWhileIncomplete ==
  ~Complete =>
    /\ \A p \in ProbePoints :
         metersAboveNetAtPoint(pixelsPerMeter, topLine, p.x, p.y) = Null
    /\ \A p1 \in ProbePoints, p2 \in ProbePoints :
         metersHorizDistance(pixelsPerMeter, p1, p2) = Null
    /\ \A rep \in ProbeReps :
         LET mt == RepMetrics(pixelsPerMeter, topLine, rep)
         IN mt.peakM = Null /\ mt.aboveNetCM = Null /\ mt.widthM = Null

\* C12 witness: the video ended while the corners were still being clicked, so
\* the metrics computation ran with the calibration not Complete.
C12_Witness ==
  /\ ~Complete
  /\ calibStep > 0
  /\ showAllAtEnd
  /\ ~IsNull(stats)

\* The metrics record in which every field is null.
AllNullMetrics ==
  [peakM |-> Null, aboveNetCM |-> Null, widthM |-> Null, direction |-> Null]

\* C13: a rep with 0 or 1 points always gets all-null metrics (peakM,
\* aboveNetCM, widthM, direction), whatever the geometry: so it is for the
\* completed reps of one point once the metrics are computed, and for the
\* empty active rep.
C13_FewPointsAllNull ==
  /\ \A i \in 1..Len(trails) :
       ~IsNull(trails[i].metrics) /\ Len(trails[i].points) < 2
         => Val(trails[i].metrics) = AllNullMetrics
  /\ Len(current.points) < 2
       => RepMetrics(pixelsPerMeter, topLine, current) = AllNullMetrics

\* C13 witness: the metrics were computed under a usable geometry for a rep of
\* one point and for a rep of two points, which got a peak.
C13_Witness ==
  /\ ~IsNull(pixelsPerMeter) /\ Truthy(Val(pixelsPerMeter))
  /\ showAllAtEnd
  /\ Len(trails) = 2
  /\ Len(trails[1].points) = 1 /\ Val(trails[1].metrics) = AllNullMetrics
  /\ Len(trails[2].points) = 2 /\ ~IsNull(Val(trails[2].metrics).peakM)

\* The values of metersAboveNetAtPoint at the points of a rep, under the
\* geometry of the state.
AboveNetValues(rep) ==
  {metersAboveNetAtPoint(pixelsPerMeter, topLine, rep.points[j].x,
                         rep.points[j].y) : j \in 1..Len(rep.points)}

\* C14: for a rep with at least 2 points under a Complete geometry, peakM is
\* NET_HEIGHT_M plus the maximum of metersAboveNetAtPoint over all its points,
\* and aboveNetCM is that maximum times 100 rounded to the nearest integer
\* (negative when no point is above the tape).
C14_PeakIsMax ==
  \A i \in 1..Len(trails) :
    Complete /\ ~IsNull(trails[i].metrics) /\ Len(trails[i].points) >= 2
      => \E a \in AboveNetValues(trails[i]) :
           /\ ~IsNull(a)
           /\ \A b \in AboveNetValues(trails[i]) :
                ~IsNull(b) /\ ~Gt(Val(b), Val(a))
           /\ Val(trails[i].metrics).peakM = Some(Add(NET_HEIGHT_M, Val(a)))
           /\ Val(trails[i].metrics).aboveNetCM
                = Some(Round(Mul(Val(a), Num(100))))

\* C15: for a rep with at least 2 points, widthM depends only on the first
\* and the last point: it equals |last.x - first.x| / pixelsPerMeter, is
\* non-negative, and reps that differ only in their interior points have the
\* same widthM.
C15_WidthFromEnds ==
  \A i \in 1..Len(trails) :
    ~IsNull(trails[i].metrics) /\ Len(trails[i].points) >= 2
      => LET first == trails[i].points[1]
             last == trails[i].points[Len(trails[i].points)]
             w == Val(trails[i].metrics).widthM
         IN /\ ~IsNull(pixelsPerMeter)
            /\ w = Some(Div(Num(AbsInt(last.x - first.x)), Val(pixelsPerMeter)))
            /\ ~Gt(Num(0), Val(w))
            /\ \A j \in 1..Len(trails) :
                 /\ ~IsNull(trails[j].metrics)
                 /\ Len(trails[j].points) >= 2
                 /\ trails[j].points[1] = first
                 /\ trails[j].points[Len(trails[j].points)] = last
                 => Val(trails[j].metrics).widthM = w

\* C16: the direction of a rep with at least 2 points is Right when last.x >
\* first.x, Left when last.x < first.x and None when they are equal.
C16_Direction ==
  \A i \in 1..Len(trails) :
    ~IsNull(trails[i].metrics) /\ Len(trails[i].points) >= 2
      => LET first == trails[i].points[1]
             last == trails[i].points[Len(trails[i].points)]
             dir == Val(trails[i].metrics).direction
         IN /\ last.x > first.x => dir = Some("right")
            /\ last.x < first.x => dir = Some("left")
            /\ last.x = first.x => dir = Some("none")

\* C16 witness: the metrics were computed for a rep that ends left of its
\* start and for a rep that ends at the x of its start.
C16_Witness ==
  /\ Len(trails) = 2
  /\ Len(trails[1].points) = 2 /\ Len(trails[2].points) = 2
  /\ trails[1].points[2].x < trails[1].points[1].x
  /\ trails[2].points[2].x = trails[2].points[1].x
  /\ trails[2].points[2].y # trails[2].points[1].y
  /\ ~IsNull(trails[1].metrics) /\ ~IsNull(trails[2].metrics)
  /\ Val(trails[1].metrics).direction = Some("left")
  /\ Val(trails[2].metrics).direction = Some("none")

\* Pixel positions at which metersAboveNetAtPoint is probed.
ProbeXs == 0..2
ProbeYs == 0..3

\* C17: a point exactly on the tape line (y = slope * x + intercept) has
\* metersAboveNetAtPoint 0, and a point with a smaller pixel y than the tape
\* line at the same x has a positive value.
C17_TapeLineIsZero ==
  Complete =>
    \A x \in ProbeXs, y \in ProbeYs :
      LET yTop == Add(Mul(Val(topLine).m, Num(x)), Val(topLine).b)
          a == metersAboveNetAtPoint(pixelsPerMeter, topLine, x, y)
      IN /\ yTop = Num(y) => a = Some(Num(0))
         /\ Gt(yTop, Num(y)) => ~IsNull(a) /\ Gt(Val(a), Num(0))

\* The completed reps that have a peak, resp. a width.
WithPeak == {i \in 1..Len(trails) : ~IsNull(Field(trails[i], "peakM"))}
WithWidth == {i \in 1..Len(trails) : ~IsNull(Field(trails[i], "widthM"))}
PeakOf(i) == Val(Field(trails[i], "peakM"))
WidthOf(i) == Val(Field(trails[i], "widthM"))

\* C18: the best-peak rep of the table is a completed rep whose peakM is the
\* maximum of the defined peaks, the first such rep when several share the
\* maximum, and there is none (index -1) when no rep has a peak.
C18_BestPeak ==
  ~IsNull(stats) =>
    LET best == Val(stats).bestIdx + 1
    IN IF WithPeak = {} THEN Val(stats).bestIdx = -1
       ELSE /\ best \in WithPeak
            /\ \A j \in WithPeak : ~Gt(PeakOf(j), PeakOf(best))
            /\ \A j \in WithPeak : j < best => Gt(PeakOf(best), PeakOf(j))

\* C18 witness: the table was made for two different reps with the same peak;
\* the first of the two is the best.
C18_Witness ==
  /\ ~IsNull(stats)
  /\ Len(trails) = 2
  /\ WithPeak = {1, 2}
  /\ PeakOf(1) = PeakOf(2)
  /\ trails[1].points # trails[2].points
  /\ Val(stats).bestIdx = 0

\* The sum of the peaks, resp. widths, of the reps of a set S of indices.
RECURSIVE SumPeaks(_)
SumPeaks(S) ==
  IF S = {} THEN Num(0)
  ELSE LET i == CHOOSE j \in S : TRUE
       IN Add(PeakOf(i), SumPeaks(S \ {i}))

RECURSIVE SumWidths(_)
SumWidths(S) ==
  IF S = {} THEN Num(0)
  ELSE LET i == CHOOSE j \in S : TRUE
       IN Add(WidthOf(i), SumWidths(S \ {i}))

\* C19: the average peak of the table is the sum of the defined peaks divided
\* by the number of reps that have one (reps with a null peak count in neither),
\* and null when no rep has a peak; the same holds for the average width.
C19_Averages ==
  ~IsNull(stats) =>
    /\ Val(stats).avgPeak =
         IF WithPeak = {} THEN Null
         ELSE Some(Div(SumPeaks(WithPeak), Num(Cardinality(WithPeak))))
    /\ Val(stats).avgWidth =
         IF WithWidth = {} THEN Null
         ELSE Some(Div(SumWidths(WithWidth), Num(Cardinality(WithWidth))))

\* C19 witness: the table was made for three reps of which only the second
\* has a peak and a width; both averages are the values of that rep.
C19_Witness ==
  /\ ~IsNull(stats)
  /\ Len(trails) = 3
  /\ WithPeak = {2} /\ WithWidth = {2}
  /\ Val(stats).avgPeak = Some(PeakOf(2))
  /\ Val(stats).avgWidth = Some(WidthOf(2))
  /\ Gt(WidthOf(2), Num(0))

\* C20: computing the metrics is idempotent: when the video ends again, after
\* a replay, every completed rep that already carries metrics gets the same
\* peakM, aboveNetCM, widthM and direction from the second computation.
C20_MetricsIdempotent ==
  [][onended =>
       \A i \in 1..Len(trails) :
         ~IsNull(trails[i].metrics)
           => /\ i <= Len(trails')
              /\ trails'[i].metrics = trails[i].metrics]_vars

\* C20 witness: the video is about to end again while a completed rep carries
\* a peak and a width from the computation at its previous end.
C20_Witness ==
  /\ ~paused
  /\ vidTime = Duration
  /\ Len(trails) >= 1
  /\ ~IsNull(Field(trails[1], "peakM"))
  /\ ~IsNull(Field(trails[1], "widthM"))

\* The point sequences of the reps of a list, in their positions.
PointsOf(reps) == [i \in 1..Len(reps) |-> reps[i].points]

\* C21: the list of completed reps changes only by endRep appending one rep
\* (the active rep, which has points) at its tail and by the full reset
\* emptying it; every rep in it has at least one point, and in every other
\* step (addPoint, undoLast, replay, restart, session end among them) the
\* position and the point sequence of every rep in the list stay as they are.
C21_TrailsAppendOnly ==
  /\ [](\A i \in 1..Len(trails) : Len(trails[i].points) >= 1)
  /\ [][\/ PointsOf(trails') = PointsOf(trails)
        \/ /\ Complete /\ keyPressed("n")
           /\ current.points # << >>
           /\ PointsOf(trails') = Append(PointsOf(trails), current.points)
        \/ /\ Complete /\ keyPressed("r")
           /\ trails' = << >>]_vars
  /\ [][(\E pt \in Clicks : mousePressed(pt[1], pt[2]))
          \/ (\E k \in Keys \ {"n", "r"} : keyPressed(k))
          \/ btnReplay \/ btnRestart \/ onended
          => PointsOf(trails') = PointsOf(trails)]_vars
  /\ [][keyPressed("n") =>
          \A i \in 1..Len(trails) :
            i <= Len(trails') /\ trails'[i] = trails[i]]_vars

\* C21 witness: a completed rep was measured at the end of the video, the
\* session was replayed, and a point was added to the new active rep while
\* the completed rep stayed in place.
C21_Witness ==
  /\ Len(trails) = 1
  /\ ~IsNull(trails[1].metrics)
  /\ ~showAllAtEnd
  /\ Len(current.points) = 1
  /\ current.points # trails[1].points

\* C22: in every state where the session has ended and the end screen is
\* shown (until a replay, restart or reset), every rep in the list of
\* completed reps carries metrics, and they are the metrics of its points
\* under the geometry of the state.
C22_EndScreenAllMeasured ==
  showAllAtEnd =>
    \A i \in 1..Len(trails) :
      trails[i].metrics
        = Some(RepMetrics(pixelsPerMeter, topLine, trails[i]))

\* C23: while calibration is not Complete the list of completed reps is empty
\* and the active rep has no points: clicks are consumed by calibration (or by
\* priming) and record no point, and the keyboard commands, endRep, undo and
\* reset among them, change nothing.
C23_NoPointsBeforeComplete ==
  /\ [](~Complete => trails = << >> /\ current.points = << >>)
  /\ [][~Complete /\ (\E pt \in Clicks : mousePressed(pt[1], pt[2]))
          => /\ UNCHANGED repVars
             /\ \/ calibStep' = calibStep + 1
                \/ ~warmed /\ UNCHANGED calibVars]_vars
  /\ [][~Complete /\ (\E k \in Keys : keyPressed(k)) => UNCHANGED vars]_vars

\* C23 witness: after a full reset of a calibrated session the corners are
\* being clicked again, with no rep and no point in the session.
C23_Witness ==
  /\ calibStep = 2
  /\ paletteIdx = 3
  /\ trails = << >>
  /\ current.points = << >>
  /\ ~started

\* The reps of a list that have a value in the metrics field f, and the sum
\* of these values over a set S of positions.
DefinedIn(reps, f) == {i \in 1..Len(reps) : ~IsNull(Field(reps[i], f))}

RECURSIVE SumIn(_, _, _)
SumIn(reps, f, S) ==
  IF S = {} THEN Num(0)
  ELSE LET i == CHOOSE j \in S : TRUE
       IN Add(Val(Field(reps[i], f)), SumIn(reps, f, S \ {i}))

AverageIn(reps, f) ==
  IF DefinedIn(reps, f) = {} THEN Null
  ELSE Some(Div(SumIn(reps, f, DefinedIn(reps, f)),
                Num(Cardinality(DefinedIn(reps, f)))))

\* C24: the end of the video does not close the active rep: the active rep
\* keeps its points, the list of completed reps keeps its reps, each of them
\* gets the metrics of its own points, the table has one row per completed
\* rep, the best peak is one of them (or none) and the averages are those of
\* the completed reps. Points still in the active rep are in no metric.
C24_EndLeavesActiveRep ==
  [][onended =>
       /\ current' = current
       /\ PointsOf(trails') = PointsOf(trails)
       /\ \A i \in 1..Len(trails) :
            trails'[i].metrics
              = Some(RepMetrics(pixelsPerMeter, topLine, trails[i]))
       /\ Len(Val(stats').rows) = Len(trails)
       /\ Val(stats').bestIdx + 1 \in DefinedIn(trails', "peakM") \cup {0}
       /\ Val(stats').avgPeak = AverageIn(trails', "peakM")
       /\ Val(stats').avgWidth = AverageIn(trails', "widthM")]_vars

\* C24 witness: the video ended under a usable geometry while the active rep
\* had two points at different x and no rep was completed: the points are
\* still in the active rep, and the table has no row, no best peak and no
\* average.
C24_Witness ==
  /\ showAllAtEnd
  /\ ~IsNull(pixelsPerMeter) /\ Truthy(Val(pixelsPerMeter))
  /\ Len(current.points) = 2
  /\ current.points[1].x # current.points[2].x
  /\ trails = << >>
  /\ ~IsNull(stats)
  /\ Val(stats).rows = << >>
  /\ Val(stats).bestIdx = -1
  /\ Val(stats).avgPeak = Null /\ Val(stats).avgWidth = Null

====
